---------------------------- MODULE Spec2Model ----------------------------
(***************************************************************************)
(* Model of modules/sfp_watchguard.py: the reputation-check plugin         *)
(* (pattern classifier, single-query resolver, bulk-list resolver and the  *)
(* dispatch / deduplication layer in handleEvent).                         *)
(*                                                                         *)
(* Strings that the code inspects character by character (fetched content, *)
(* list lines, event payloads) are sequences of one-character strings.     *)
(* Python's None is modelled per type: a fetch / cache result is a record  *)
(* with an isNone flag, a resolver's return value is a record with a found *)
(* flag, the classifier's three results are "True", "False" and "None".    *)
(***************************************************************************)
EXTENDS Integers, Sequences, FiniteSets, TLC

VARIABLES malchecks, opts, results, ready, cache, last, probe

vars == <<malchecks, opts, results, ready, cache, last, probe>>

---------------------------------------------------------------------------
(* Bounds of the model.                                                    *)

\* longest good / bad pattern list drawn for the classifier
MaxPatterns == 2

---------------------------------------------------------------------------
(* Characters and regular expressions (Python's re.match with the flags    *)
(* re.IGNORECASE | re.DOTALL, as called by contentMalicious).              *)

\* re.IGNORECASE: letters are compared in lower case
Lower(c) ==
    CASE c = "T" -> "t"
      [] c = "D" -> "d"
      [] OTHER -> c

Digits == {"0", "1", "2", "3", "4", "5", "6", "7", "8", "9"}

\* pattern elements: one character out of a class, or ".*"
Ch(c) == [k |-> "set", s |-> {c}]
Cls(s) == [k |-> "set", s |-> s]
DotStar == [k |-> "dotstar", s |-> {}]

\* re.match(rx, s, re.IGNORECASE | re.DOTALL): the pattern matches a prefix
\* of s (anchored at the start, not at the end); "." also matches "\n".
RECURSIVE ReMatch(_, _)
ReMatch(rx, s) ==
    IF rx = <<>> THEN TRUE
    ELSE IF Head(rx).k = "dotstar"
         THEN \E i \in 0..Len(s) : ReMatch(Tail(rx), SubSeq(s, i + 1, Len(s)))
         ELSE /\ s # <<>>
              /\ Lower(Head(s)) \in Head(rx).s
              /\ ReMatch(Tail(rx), Tail(s))

\* "/100 </td>"
ScoreTail == <<Ch("/"), Ch("1"), Ch("0"), Ch("0"), Ch(" "),
               Ch("<"), Ch("/"), Ch("t"), Ch("d"), Ch(">")>>

\* '.*>[6-9][0-9]/100 </td>.*'
RxBadHigh == <<DotStar, Ch(">"), Cls({"6", "7", "8", "9"}), Cls(Digits)>>
                 \o ScoreTail \o <<DotStar>>

\* '.*>100/100 </td>.*'
RxBad100 == <<DotStar, Ch(">"), Ch("1"), Ch("0"), Ch("0")>>
                 \o ScoreTail \o <<DotStar>>

---------------------------------------------------------------------------
(* contentMalicious: the pattern classifier.                               *)

\* the for loop over a pattern list: the index of the first pattern that
\* matches, 0 when the loop runs to its end
RECURSIVE FirstMatch(_, _, _)
FirstMatch(rxs, content, i) ==
    IF i > Len(rxs) THEN 0
    ELSE IF ReMatch(rxs[i], content) THEN i
         ELSE FirstMatch(rxs, content, i + 1)

\* mutant: the good indicators are checked before the bad ones
contentMalicious_GoodFirst(content, goodregex, badregex) ==
    IF Len(goodregex) > 0 /\ FirstMatch(goodregex, content, 1) > 0
    THEN "False"
    ELSE IF Len(badregex) > 0 /\ FirstMatch(badregex, content, 1) > 0
         THEN "True"
         ELSE "None"

contentMalicious(content, goodregex, badregex) ==
    IF Len(badregex) > 0 /\ FirstMatch(badregex, content, 1) > 0
    THEN "True"
    ELSE IF Len(goodregex) > 0 /\ FirstMatch(goodregex, content, 1) > 0
         THEN "False"
         ELSE "None"

---------------------------------------------------------------------------
(* String helpers: what the code does with str.split, str.strip,           *)
(* str.startswith and str.format.                                          *)

\* s.split(sep): the pieces of s between occurrences of the character sep
RECURSIVE SplitFrom(_, _, _)
SplitFrom(s, sep, cur) ==
    IF s = <<>> THEN <<cur>>
    ELSE IF Head(s) = sep
         THEN <<cur>> \o SplitFrom(Tail(s), sep, <<>>)
         ELSE SplitFrom(Tail(s), sep, Append(cur, Head(s)))

Split(s, sep) == SplitFrom(s, sep, <<>>)

Whitespace == {" ", "\t", "\r", "\n"}

RECURSIVE LStrip(_)
LStrip(s) ==
    IF s # <<>> /\ Head(s) \in Whitespace THEN LStrip(Tail(s)) ELSE s

RECURSIVE RStrip(_)
RStrip(s) ==
    IF s # <<>> /\ s[Len(s)] \in Whitespace
    THEN RStrip(SubSeq(s, 1, Len(s) - 1))
    ELSE s

\* s.strip()
Strip(s) == RStrip(LStrip(s))

\* s.startswith(c) for a one-character prefix
StartsWith(s, c) == s # <<>> /\ Head(s) = c

\* url.format(target): a template is a sequence of pieces of text in which
\* the piece "{0}" is the placeholder; the placeholder is replaced by the
\* target
RECURSIVE Format(_, _)
Format(tpl, target) ==
    IF tpl = <<>> THEN <<>>
    ELSE IF Head(tpl) = "{0}"
         THEN <<target>> \o Format(Tail(tpl), target)
         ELSE <<Head(tpl)>> \o Format(Tail(tpl), target)

---------------------------------------------------------------------------
(* netaddr: IPAddress(ip) in IPNetwork(target), on dotted-quad IPv4 text.  *)

DigitVal(c) ==
    CASE c = "0" -> 0 [] c = "1" -> 1 [] c = "2" -> 2 [] c = "3" -> 3
      [] c = "4" -> 4 [] c = "5" -> 5 [] c = "6" -> 6 [] c = "7" -> 7
      [] c = "8" -> 8 [] c = "9" -> 9

\* a decimal number of one to three digits, -1 when s is not one
RECURSIVE DecFrom(_, _)
DecFrom(s, acc) ==
    IF s = <<>> THEN acc
    ELSE IF Head(s) \in Digits THEN DecFrom(Tail(s), 10 * acc + DigitVal(Head(s)))
         ELSE -1

Dec(s) == IF Len(s) \in 1..3 THEN DecFrom(s, 0) ELSE -1

\* IPAddress(s): the address as [ok, v], ok = FALSE where netaddr raises.
\* The first octet is kept below 128 so that the value fits TLC's 32-bit
\* integers.
IPAddress(s) ==
    LET parts == Split(s, ".")
    IN  IF /\ Len(parts) = 4
           /\ \A i \in 1..4 : Dec(parts[i]) \in 0..255
           /\ Dec(parts[1]) < 128
        THEN [ok |-> TRUE,
              v |-> ((Dec(parts[1]) * 256 + Dec(parts[2])) * 256
                        + Dec(parts[3])) * 256 + Dec(parts[4])]
        ELSE [ok |-> FALSE, v |-> 0]

RECURSIVE Pow2(_)
Pow2(n) == IF n = 0 THEN 1 ELSE 2 * Pow2(n - 1)

\* IPNetwork(s): "a.b.c.d/p" (or "a.b.c.d", a /32) as [ok, v, p]; prefix
\* lengths 2..32 keep the block size inside TLC's 32-bit integers
IPNetwork(s) ==
    LET parts == Split(s, "/")
        addr == IPAddress(parts[1])
        plen == IF Len(parts) = 2 THEN Dec(parts[2]) ELSE 32
    IN  IF Len(parts) \in 1..2 /\ addr.ok /\ plen \in 2..32
        THEN [ok |-> TRUE, v |-> addr.v, p |-> plen]
        ELSE [ok |-> FALSE, v |-> 0, p |-> 0]

\* IPAddress(ip) in IPNetwork(target); raised = TRUE where either
\* constructor raises (the code's except clause then skips the line)
InNetblock(ip, target) ==
    LET a == IPAddress(ip)
        n == IPNetwork(target)
        size == Pow2(32 - n.p)
    IN  IF ~a.ok \/ ~n.ok THEN [raised |-> TRUE, isIn |-> FALSE]
        ELSE [raised |-> FALSE, isIn |-> (a.v \div size = n.v \div size)]

---------------------------------------------------------------------------
(* Text used by the model: event payloads, fetched pages, fetched lists.   *)

IpA == <<"1", "0", ".", "0", ".", "0", ".", "1">>
IpB == <<"1", "0", ".", "0", ".", "0", ".", "5">>
IpC == <<"1", "0", ".", "0", ".", "0", ".", "3">>
NetA == <<"1", "0", ".", "0", ".", "0", ".", "0", "/", "3", "0">>
NetB == <<"1", "0", ".", "0", ".", "0", ".", "8", "/", "3", "0">>
DomA == <<"a", ".", "e", "v", "i", "l", ".", "c", "o", "m">>
DomABase == <<"e", "v", "i", "l", ".", "c", "o", "m">>
AsnA == <<"7", "0", "1", "8">>

\* content joined from lines with "\n"
RECURSIVE JoinLines(_)
JoinLines(lines) ==
    IF lines = <<>> THEN <<>>
    ELSE IF Len(lines) = 1 THEN lines[1]
         ELSE lines[1] \o <<"\n">> \o JoinLines(Tail(lines))

ScoreText == <<"/", "1", "0", "0", " ", "<", "/", "t", "d", ">">>
\* ">95/100 </td>", ">10/100 </td>", ">100/100 </td>"
Page95 == <<">", "9", "5">> \o ScoreText
Page10 == <<">", "1", "0">> \o ScoreText
Page100 == <<">", "1", "0", "0">> \o ScoreText
\* "<TD>\n>60/100 </TD>": upper case, and a line break before the score
Page60Upper == <<"<", "T", "D", ">", "\n", ">", "6", "0", "/", "1", "0", "0",
                 " ", "<", "/", "T", "D", ">">>
\* "95/100 </td>": no ">" before the score
PageNoTag == <<"9", "5">> \o ScoreText
PageEmpty == <<>>

LineComment == <<"#">> \o <<"1", "0", ".", "0", ".", "0", ".", "2">>
LineBad == <<"b", "a", "d">>
\* "1.2.3.4": a valid address of fewer than 8 characters
LineShort == <<"1", ".", "2", ".", "3", ".", "4">>
\* "1.2.3.4/30"
NetShort == LineShort \o <<"/", "3", "0">>
\* "10.0.0.x1": 9 characters, not an address
LineGarbled == <<"1", "0", ".", "0", ".", "0", ".", "x", "1">>

ListX == JoinLines(<<LineComment, LineBad, IpB, AsnA, DomABase>>)
ListY == JoinLines(<<LineGarbled, IpA, <<>>>>)

\* The state names a text (a payload, a page, a list, a list line) by a
\* string; Text gives its characters.  "probe" is the list made of the
\* lines probe.lines.
\* A fetchUrl, cacheGet or hostDomain result is NoContent (None) or the
\* name of a text.
NoContent == "None"

RECURSIVE Text(_)

Text(name) ==
    CASE name = "10.0.0.1" -> IpA
      [] name = "10.0.0.5" -> IpB
      [] name = "10.0.0.0/30" -> NetA
      [] name = "10.0.0.8/30" -> NetB
      [] name = "1.2.3.4/30" -> NetShort
      [] name = "#10.0.0.2" -> LineComment
      [] name = "bad" -> LineBad
      [] name = "1.2.3.4" -> LineShort
      [] name = "1.2.3.4 " -> LineShort \o <<" ">>
      [] name = "10.0.0.3\r" -> IpC \o <<"\r">>
      [] name = "10.0.0.x1" -> LineGarbled
      [] name = "page100" -> Page100
      [] name = "page60upper" -> Page60Upper
      [] name = "pageNoTag" -> PageNoTag
      [] name = "probe" -> JoinLines([k \in 1..Len(probe.lines) |->
                                        Text(probe.lines[k])])
      [] name = "a.evil.com" -> DomA
      [] name = "evil.com" -> DomABase
      [] name = "7018" -> AsnA
      [] name = "page95" -> Page95
      [] name = "page10" -> Page10
      [] name = "listX" -> ListX
      [] name = "listY" -> ListY
      [] name = "evil.com " -> DomABase \o <<" ">>
      [] name = "EVIL.COM" -> <<"E", "V", "I", "L", ".", "C", "O", "M">>
      [] name = "b.evil.com" -> <<"b">> \o Tail(DomA)
      [] OTHER -> <<>>

---------------------------------------------------------------------------
(* malchecks: the table of reputation checks, in dictionary order.  The    *)
(* first entry is the one the module ships; the others are checks of the   *)
(* same shape that the resolvers and the dispatch loop are written for.    *)

\* '.*>[0-5][0-9]/100 </td>.*'
RxGoodLow == <<DotStar, Ch(">"), Cls({"0", "1", "2", "3", "4", "5"}), Cls(Digits)>>
                 \o ScoreTail \o <<DotStar>>
\* '.*/100.*'
RxAnyScore == <<DotStar, Ch("/"), Ch("1"), Ch("0"), Ch("0"), DotStar>>
\* '<td>': no leading '.*', so it matches at the start of the content only
RxTdStart == <<Ch("<"), Ch("t"), Ch("d"), Ch(">")>>

CheckWatchguard ==
    [name |-> "Watchguard Reputation Authority Lookup",
     id |-> "_watchguard", type |-> "query", checks |-> {"ip"},
     url |-> <<"http://reputationauthority.org/lookup?ip=", "{0}">>,
     badregex |-> <<RxBadHigh, RxBad100>>, goodregex |-> <<>>,
     hasRegex |-> FALSE]

CheckQueryB ==
    [name |-> "Query B", id |-> "_qb", type |-> "query",
     checks |-> {"ip", "asn", "domain"},
     url |-> <<"http://b/lookup?q=", "{0}">>,
     badregex |-> <<RxBad100>>, goodregex |-> <<RxGoodLow>>,
     hasRegex |-> FALSE]

CheckListC ==
    [name |-> "List C", id |-> "_lc", type |-> "list",
     checks |-> {"ip", "netblock", "asn", "domain"},
     url |-> <<"http://c/list.txt">>,
     badregex |-> <<>>, goodregex |-> <<>>,
     hasRegex |-> FALSE]

CheckListD ==
    [name |-> "List D", id |-> "_lc", type |-> "list",
     checks |-> {"domain", "netblock"},
     url |-> <<"http://d/list.txt">>,
     badregex |-> <<>>, goodregex |-> <<>>,
     hasRegex |-> FALSE]

AllChecks == <<CheckWatchguard, CheckListC, CheckListD, CheckQueryB>>

\* most checks in one table
MaxChecks == 2

\* the tables: the shipped one (the first entry alone) and the longer
\* beginnings of AllChecks, up to MaxChecks entries
Tables ==
    {SubSeq(AllChecks, 1, n) : n \in 1..(IF MaxChecks < Len(AllChecks)
                                          THEN MaxChecks ELSE Len(AllChecks))}

ShippedTable == <<CheckWatchguard>>

\* what a fetch of a check's URL can return
FetchResults(check) ==
    IF check.type = "query"
    THEN {NoContent, "page95", "page10"}
    ELSE {NoContent, "listX", "listY"}

CacheKey(cid) == <<"sfmal_", cid>>

CacheKeys == {CacheKey(AllChecks[j].id) : j \in 1..Len(AllChecks)}

---------------------------------------------------------------------------
(* The option map.  opts is a dictionary: a function whose domain is the   *)
(* set of keys present.                                                    *)

\* opts.get(key, default)
OptGet(o, key, default) == IF key \in DOMAIN o THEN o[key] ELSE default

\* the class attribute: opts = {'checkaffiliates': True}
DefaultOpts == [k \in {"checkaffiliates"} |-> TRUE]

\* for opt in userOpts: self.opts[opt] = userOpts[opt]
MergeOpts(o, userOpts) ==
    [k \in DOMAIN o \cup DOMAIN userOpts |->
        IF k \in DOMAIN userOpts THEN userOpts[k] ELSE o[k]]

---------------------------------------------------------------------------
(* The resolvers.  A resolver run is given env, the answers of the         *)
(* collaborators during one handleEvent call:                              *)
(*   env.fetch[j]  what sf.fetchUrl returns for the URL of malchecks[j]    *)
(*   env.dom       what sf.hostDomain returns for the payload              *)
(*   env.stopAt    the first poll of checkForStop() that returns True      *)
(* and returns a record                                                    *)
(*   found, url    the return value (None: found = FALSE)                  *)
(*   exc           "" or the exception that left the function              *)
(*   cache         the content cache after the run                         *)
(*   trace         the collaborator calls made, in order                   *)

\* one collaborator call: op on behalf of malchecks[chk]
Call(op, chk, val, out) == [op |-> op, chk |-> chk, val |-> val, out |-> out]

Ret(found, url, exc, cch, trace) ==
    [found |-> found, url |-> url, exc |-> exc, cache |-> cch, trace |-> trace]

None(exc, cch, trace) == Ret(FALSE, <<>>, exc, cch, trace)

\* timeout=self.opts['_fetchtimeout'], useragent=self.opts['_useragent']
HasFetchOpts(o) == "_fetchtimeout" \in DOMAIN o /\ "_useragent" \in DOMAIN o

RECURSIVE QueryFrom(_, _, _, _, _, _)

\* mutant: every classification but "not malicious" counts as a finding
QueryClassified_UnknownIsBad(j, id, target, env, cch, trace, res, cm) ==
    IF cm # "False"
    THEN Ret(TRUE, Format(malchecks[j].url, target), "", cch,
             Append(trace, Call("contentMalicious", j, res, cm)))
    ELSE QueryFrom(j + 1, id, target, env, cch,
                   Append(trace, Call("contentMalicious", j, res, cm)))

\* if self.contentMalicious(...): return url.format(target); cm is the
\* classifier's result on the content res
QueryClassified(j, id, target, env, cch, trace, res, cm) ==
    IF cm = "True"
    THEN Ret(TRUE, Format(malchecks[j].url, target), "", cch,
             Append(trace, Call("contentMalicious", j, res, cm)))
    ELSE QueryFrom(j + 1, id, target, env, cch,
                   Append(trace, Call("contentMalicious", j, res, cm)))

\* res = self.sf.fetchUrl(...); without content: error, return None
QueryFetched(j, id, target, env, cch, trace, res) ==
    IF res = NoContent
    THEN None("", cch, trace \o <<Call("fetchUrl", j, res, ""),
                                  Call("error", j, res, "")>>)
    ELSE QueryClassified(j, id, target, env, cch,
                         Append(trace, Call("fetchUrl", j, res, "")), res,
                         contentMalicious(Text(res), malchecks[j].goodregex,
                                          malchecks[j].badregex))

\* resourceQuery's loop over the table, from check j on
QueryFrom(j, id, target, env, cch, trace) ==
    IF j > Len(malchecks) THEN None("", cch, trace)
    ELSE IF ~(id = malchecks[j].id /\ malchecks[j].type = "query")
    THEN QueryFrom(j + 1, id, target, env, cch, trace)
    ELSE IF ~HasFetchOpts(opts) THEN None("KeyError", cch, trace)
    ELSE QueryFetched(j, id, target, env, cch, trace, env.fetch[j])

resourceQuery(id, target, targetType, env, cch) ==
    QueryFrom(1, id, target, env, cch, <<>>)

\* mutant: the test on the line's length is missing
LineInNetblock_NoMinLen(ip, target) ==
    IF StartsWith(ip, "#") THEN FALSE
    ELSE InNetblock(Strip(ip), Text(target)).isIn

\* the body of "for ip in iplist" for one line: TRUE when the line is an
\* address inside the netblock
LineInNetblock(ip, target) ==
    IF Len(ip) < 8 \/ StartsWith(ip, "#") THEN FALSE
    ELSE InNetblock(Strip(ip), Text(target)).isIn

\* for ip in iplist: return url at the first line, from line k on, that is
\* an address inside the netblock
RECURSIVE ScanNetblock(_, _, _)
ScanNetblock(iplist, k, target) ==
    IF k > Len(iplist) THEN FALSE
    ELSE IF LineInNetblock(iplist[k], target) THEN TRUE
    ELSE ScanNetblock(iplist, k + 1, target)

\* mutant: a line is compared with the target alone
LineMatch_TargetOnly(lines, target, targetType, targetDom) ==
    \E k \in 1..Len(lines) : lines[k] = target

\* for line in data['content'].split('\n'): exact match on the target or,
\* for a domain, on its base domain
LineMatch(lines, target, targetType, targetDom) ==
    \E k \in 1..Len(lines) :
        \/ lines[k] = target
        \/ targetType = "domain" /\ lines[k] = targetDom

RECURSIVE ListFrom(_, _, _, _, _, _, _, _)

\* the match of the target against the list content data.  No table of the
\* model gives a check a 'regex' entry, so the two branches that build a
\* pattern from it are not taken.
ListMatched(j, id, target, targetType, targetDom, env, cch, trace, data) ==
    IF targetType = "netblock"
    THEN IF ScanNetblock(Split(Text(data), "\n"), 1, target)
         THEN Ret(TRUE, malchecks[j].url, "", cch, trace)
         ELSE None("", cch, trace)
    ELSE IF LineMatch(Split(Text(data), "\n"), Text(target), targetType,
                      Text(targetDom))
    THEN Ret(TRUE, malchecks[j].url, "", cch, trace)
    ELSE ListFrom(j + 1, id, target, targetType, targetDom, env, cch, trace)

\* cache miss: data = self.sf.fetchUrl(url, ...); without content: error,
\* return None; else cachePut
ListFetched(j, id, target, targetType, targetDom, env, cch, trace, fetched) ==
    IF fetched = NoContent
    THEN None("", cch, trace \o <<Call("fetchUrl", j, fetched, ""),
                                  Call("error", j, fetched, "")>>)
    ELSE ListMatched(j, id, target, targetType, targetDom, env,
                     [cch EXCEPT ![CacheKey(malchecks[j].id)] = fetched],
                     trace \o <<Call("fetchUrl", j, fetched, ""),
                                Call("cachePut", j, fetched, "")>>,
                     fetched)

\* mutant: the list is fetched whatever the cache holds
ListCached_IgnoreCache(j, id, target, targetType, targetDom, env, cch, trace, cached) ==
    ListFetched(j, id, target, targetType, targetDom, env, cch,
                Append(trace, Call("cacheGet", j, cached, "")), env.fetch[j])

\* data['content'] = self.sf.cacheGet("sfmal_" + cid, ...)
ListCached(j, id, target, targetType, targetDom, env, cch, trace, cached) ==
    IF cached # NoContent
    THEN ListMatched(j, id, target, targetType, targetDom, env, cch,
                     Append(trace, Call("cacheGet", j, cached, "")), cached)
    ELSE IF ~HasFetchOpts(opts)
    THEN None("KeyError", cch, Append(trace, Call("cacheGet", j, cached, "")))
    ELSE ListFetched(j, id, target, targetType, targetDom, env, cch,
                     Append(trace, Call("cacheGet", j, cached, "")),
                     env.fetch[j])

\* resourceList's loop over the table, from check j on
ListFrom(j, id, target, targetType, targetDom, env, cch, trace) ==
    IF j > Len(malchecks) THEN None("", cch, trace)
    ELSE IF ~(id = malchecks[j].id /\ malchecks[j].type = "list")
    THEN ListFrom(j + 1, id, target, targetType, targetDom, env, cch, trace)
    ELSE ListCached(j, id, target, targetType, targetDom, env, cch, trace,
                    cch[CacheKey(malchecks[j].id)])

\* targetDom = self.sf.hostDomain(target, self.opts['_internettlds']);
\* if not targetDom: return None
ListDomain(id, target, targetType, env, cch, targetDom) ==
    IF targetDom = NoContent \/ targetDom = ""
    THEN None("", cch, <<Call("hostDomain", 0, targetDom, "")>>)
    ELSE ListFrom(1, id, target, targetType, targetDom, env, cch,
                  <<Call("hostDomain", 0, targetDom, "")>>)

resourceList(id, target, targetType, env, cch) ==
    IF targetType # "domain"
    THEN ListFrom(1, id, target, targetType, "", env, cch, <<>>)
    ELSE IF "_internettlds" \notin DOMAIN opts THEN None("KeyError", cch, <<>>)
    ELSE ListDomain(id, target, targetType, env, cch, env.dom)

\* lookupItem's loop, from check j on
RECURSIVE LookupFrom(_, _, _, _, _, _)
LookupFrom(j, resourceId, itemType, target, env, cch) ==
    IF j > Len(malchecks) THEN None("", cch, <<>>)
    ELSE IF ~(malchecks[j].id = resourceId /\ itemType \in malchecks[j].checks)
    THEN LookupFrom(j + 1, resourceId, itemType, target, env, cch)
    ELSE IF malchecks[j].type = "query"
    THEN resourceQuery(malchecks[j].id, target, itemType, env, cch)
    ELSE resourceList(malchecks[j].id, target, itemType, env, cch)

lookupItem(resourceId, itemType, target, env, cch) ==
    LookupFrom(1, resourceId, itemType, target, env, cch)
---------------------------------------------------------------------------
(* handleEvent: the dispatch and deduplication layer.                      *)

\* typeId, as the if-chain inside the loop assigns it
TypeId(eventName) ==
    CASE eventName \in {"IP_ADDRESS", "AFFILIATE_IPADDR"} -> "ip"
      [] eventName \in {"BGP_AS_OWNER", "BGP_AS_MEMBER"} -> "asn"
      [] eventName \in {"INTERNET_NAME", "CO_HOSTED_SITE",
                        "AFFILIATE_INTERNET_NAME"} -> "domain"
      [] eventName \in {"NETBLOCK_OWNER", "NETBLOCK_MEMBER"} -> "netblock"

\* mutant: a netblock member is reported with the kind of a netblock owner
EvtType_MemberAsOwner(eventName) ==
    CASE eventName = "IP_ADDRESS" -> "MALICIOUS_IPADDR"
      [] eventName = "AFFILIATE_IPADDR" -> "MALICIOUS_AFFILIATE_IPADDR"
      [] eventName \in {"BGP_AS_OWNER", "BGP_AS_MEMBER"} -> "MALICIOUS_ASN"
      [] eventName = "INTERNET_NAME" -> "MALICIOUS_INTERNET_NAME"
      [] eventName = "AFFILIATE_INTERNET_NAME" -> "MALICIOUS_AFFILIATE_INTERNET_NAME"
      [] eventName = "CO_HOSTED_SITE" -> "MALICIOUS_COHOST"
      [] eventName \in {"NETBLOCK_OWNER", "NETBLOCK_MEMBER"} -> "MALICIOUS_NETBLOCK"

\* evtType, as the if-chain inside the loop assigns it
EvtType(eventName) ==
    CASE eventName = "IP_ADDRESS" -> "MALICIOUS_IPADDR"
      [] eventName = "AFFILIATE_IPADDR" -> "MALICIOUS_AFFILIATE_IPADDR"
      [] eventName \in {"BGP_AS_OWNER", "BGP_AS_MEMBER"} -> "MALICIOUS_ASN"
      [] eventName = "INTERNET_NAME" -> "MALICIOUS_INTERNET_NAME"
      [] eventName = "AFFILIATE_INTERNET_NAME" -> "MALICIOUS_AFFILIATE_INTERNET_NAME"
      [] eventName = "CO_HOSTED_SITE" -> "MALICIOUS_COHOST"
      [] eventName = "NETBLOCK_OWNER" -> "MALICIOUS_NETBLOCK"
      [] eventName = "NETBLOCK_MEMBER" -> "MALICIOUS_SUBNET"

\* mutant: an option that is absent counts as enabled
GateClosed_DefaultOpen(eventName, o) ==
    \/ eventName = "CO_HOSTED_SITE" /\ ~OptGet(o, "checkcohosts", TRUE)
    \/ eventName = "AFFILIATE_IPADDR" /\ ~OptGet(o, "checkaffiliates", TRUE)
    \/ eventName = "NETBLOCK_OWNER" /\ ~OptGet(o, "checknetblocks", TRUE)
    \/ eventName = "NETBLOCK_MEMBER" /\ ~OptGet(o, "checksubnets", TRUE)

\* the four early returns after the dedup test
GateClosed(eventName, o) ==
    \/ eventName = "CO_HOSTED_SITE" /\ ~OptGet(o, "checkcohosts", FALSE)
    \/ eventName = "AFFILIATE_IPADDR" /\ ~OptGet(o, "checkaffiliates", FALSE)
    \/ eventName = "NETBLOCK_OWNER" /\ ~OptGet(o, "checknetblocks", FALSE)
    \/ eventName = "NETBLOCK_MEMBER" /\ ~OptGet(o, "checksubnets", FALSE)

\* the state of one handleEvent call before its loop starts
LoopStart(cch) ==
    [cache |-> cch, trace |-> <<>>, lookups |-> <<>>, emits |-> <<>>,
     polls |-> 0, stopped |-> FALSE, exc |-> ""]

\* url = self.lookupItem(cid, typeId, eventData) has returned r (or raised)
Looked(st, i, eventName, r) ==
    [st EXCEPT !.cache = r.cache,
               !.trace = st.trace \o r.trace,
               !.lookups = Append(st.lookups,
                              [chk |-> i, cid |-> malchecks[i].id,
                               typeId |-> TypeId(eventName),
                               found |-> r.found, url |-> r.url,
                               exc |-> r.exc,
                               failed |-> \E k \in 1..Len(r.trace) :
                                              r.trace[k].op = "error"])]

\* self.checkForStop() has been polled once more
Polled(st) == [st EXCEPT !.polls = st.polls + 1]

\* evt = SpiderFootEvent(evtType, text, ...); self.notifyListeners(evt)
Notified(st, i, eventName, eventData, url) ==
    [st EXCEPT !.emits = Append(st.emits,
                            [evtType |-> EvtType(eventName),
                             name |-> malchecks[i].name, data |-> eventData,
                             url |-> url, chk |-> i])]

RECURSIVE CheckLoop(_, _, _, _, _)

\* mutant: the listeners are notified whatever lookupItem returned
AfterLookup_NotifyUnfound(i, eventName, eventData, env, st, r) ==
    IF r.exc # "" THEN [Looked(st, i, eventName, r) EXCEPT !.exc = r.exc]
    ELSE IF env.stopAt <= st.polls + 1
    THEN [Polled(Looked(st, i, eventName, r)) EXCEPT !.stopped = TRUE]
    ELSE CheckLoop(i + 1, eventName, eventData, env,
                   Notified(Polled(Looked(st, i, eventName, r)),
                            i, eventName, eventData, r.url))

\* mutant: the stop signal is polled after the listeners are notified
AfterLookup_NotifyBeforeStop(i, eventName, eventData, env, st, r) ==
    IF r.exc # "" THEN [Looked(st, i, eventName, r) EXCEPT !.exc = r.exc]
    ELSE IF env.stopAt <= st.polls + 1
    THEN IF r.found
         THEN [Notified(Polled(Looked(st, i, eventName, r)),
                        i, eventName, eventData, r.url) EXCEPT !.stopped = TRUE]
         ELSE [Polled(Looked(st, i, eventName, r)) EXCEPT !.stopped = TRUE]
    ELSE IF r.found
    THEN CheckLoop(i + 1, eventName, eventData, env,
                   Notified(Polled(Looked(st, i, eventName, r)),
                            i, eventName, eventData, r.url))
    ELSE CheckLoop(i + 1, eventName, eventData, env,
                   Polled(Looked(st, i, eventName, r)))

\* mutant: a failed fetch ends the loop
AfterLookup_AbortOnFetchError(i, eventName, eventData, env, st, r) ==
    IF r.exc # "" THEN [Looked(st, i, eventName, r) EXCEPT !.exc = r.exc]
    ELSE IF env.stopAt <= st.polls + 1
    THEN [Polled(Looked(st, i, eventName, r)) EXCEPT !.stopped = TRUE]
    ELSE IF \E k \in 1..Len(r.trace) : r.trace[k].op = "error"
    THEN Polled(Looked(st, i, eventName, r))
    ELSE IF r.found
    THEN CheckLoop(i + 1, eventName, eventData, env,
                   Notified(Polled(Looked(st, i, eventName, r)),
                            i, eventName, eventData, r.url))
    ELSE CheckLoop(i + 1, eventName, eventData, env,
                   Polled(Looked(st, i, eventName, r)))

\* the rest of the loop body once lookupItem has returned r: poll the stop
\* signal, then notify the listeners of a finding
AfterLookup(i, eventName, eventData, env, st, r) ==
    IF r.exc # "" THEN [Looked(st, i, eventName, r) EXCEPT !.exc = r.exc]
    ELSE IF env.stopAt <= st.polls + 1
    THEN [Polled(Looked(st, i, eventName, r)) EXCEPT !.stopped = TRUE]
    ELSE IF r.found
    THEN CheckLoop(i + 1, eventName, eventData, env,
                   Notified(Polled(Looked(st, i, eventName, r)),
                            i, eventName, eventData, r.url))
    ELSE CheckLoop(i + 1, eventName, eventData, env,
                   Polled(Looked(st, i, eventName, r)))

\* for check in malchecks, from check i on
CheckLoop(i, eventName, eventData, env, st) ==
    IF i > Len(malchecks) THEN st
    ELSE IF malchecks[i].id \notin DOMAIN opts THEN [st EXCEPT !.exc = "KeyError"]
    ELSE IF ~opts[malchecks[i].id]
    THEN CheckLoop(i + 1, eventName, eventData, env, st)
    ELSE AfterLookup(i, eventName, eventData, env, st,
                     lookupItem(malchecks[i].id, TypeId(eventName), eventData,
                                env, st.cache))

\* what the last operation on the module did
Did(op, inst, eventName, eventData, dup, gated, st) ==
    [op |-> op, inst |-> inst, eventName |-> eventName, eventData |-> eventData,
     dup |-> dup, gated |-> gated, trace |-> st.trace, lookups |-> st.lookups,
     emits |-> st.emits, polls |-> st.polls, stopped |-> st.stopped,
     exc |-> st.exc]

Instances == DOMAIN results

EventNames ==
    {"IP_ADDRESS", "AFFILIATE_IPADDR", "BGP_AS_OWNER", "BGP_AS_MEMBER",
     "INTERNET_NAME", "AFFILIATE_INTERNET_NAME", "CO_HOSTED_SITE",
     "NETBLOCK_OWNER", "NETBLOCK_MEMBER"}

\* the payload an event of a kind carries in the model
Payloads(eventName) ==
    CASE TypeId(eventName) = "ip" -> {"10.0.0.1"}
      [] TypeId(eventName) = "asn" -> {"7018"}
      [] TypeId(eventName) = "domain" -> {"a.evil.com"}
      [] TypeId(eventName) = "netblock" -> {"10.0.0.0/30"}

AllPayloads == UNION {Payloads(n) : n \in EventNames}

\* the checks whose enable flag is set
Switched == {i \in 1..Len(malchecks) :
                malchecks[i].id \in DOMAIN opts /\ opts[malchecks[i].id]}

\* the checks whose URL a lookup for an indicator kind can fetch: a fetch
\* needs the fetch options, a check that is switched on and a check of the
\* same identifier that applies to the kind
Fetchable(typeId) ==
    {j \in 1..Len(malchecks) :
        /\ HasFetchOpts(opts)
        /\ \E i \in Switched : malchecks[i].id = malchecks[j].id
        /\ \E i \in 1..Len(malchecks) :
              typeId \in malchecks[i].checks /\ malchecks[i].id = malchecks[j].id}

\* the collaborators' answers during one handleEvent call: a result for
\* every fetch the call can make, and a poll of the stop signal that is the
\* first to return True (one more than the switched-on checks: none)
Envs(eventName) ==
    LET typeId == TypeId(eventName)
        fetches == {f \in [1..Len(malchecks) ->
                              UNION {FetchResults(AllChecks[j]) :
                                        j \in 1..Len(AllChecks)}] :
                      \A j \in 1..Len(malchecks) :
                          IF j \in Fetchable(typeId)
                          THEN f[j] \in FetchResults(malchecks[j])
                          ELSE f[j] = NoContent}
        doms == IF typeId = "domain"
                THEN {NoContent, "evil.com"}
                ELSE {NoContent}
    IN  [fetch : fetches, dom : doms, stopAt : 1..(Cardinality(Switched) + 1)]

\* a call that returns before its loop asks no collaborator
NoEnv == [fetch |-> [j \in 1..Len(malchecks) |-> NoContent],
          dom |-> NoContent, stopAt |-> Cardinality(Switched) + 1]

EnvsFor(inst, eventName, eventData) ==
    IF eventData \in results[inst] \/ GateClosed(eventName, opts)
    THEN {NoEnv}
    ELSE Envs(eventName)

\* the option maps the host hands to setup
HostKeys == {"_fetchtimeout", "_useragent", "_internettlds"}
GateKeys == {"checkaffiliates", "checkcohosts", "checknetblocks", "checksubnets"}
FlagKeys == {AllChecks[j].id : j \in 1..Len(AllChecks)}

\* nothing; the enable flags alone; every option set; and the gates closed
\* with one check disabled
FlagOpts == [k \in FlagKeys |-> TRUE]
FullOpts == [k \in HostKeys \cup GateKeys \cup FlagKeys |-> TRUE]
RestrictedOpts ==
    [k \in HostKeys \cup GateKeys \cup FlagKeys |->
        k \in HostKeys \/ k \in FlagKeys \ {"_watchguard"}]

UserOpts == {<<>>, FlagOpts, FullOpts, RestrictedOpts}

\* the call has run its loop (or returned at a gate): st is what it did
Returned(inst, eventName, eventData, gated, st) ==
    /\ last' = Did("handleEvent", inst, eventName, eventData, FALSE, gated, st)
    /\ cache' = st.cache

\* mutant: the gate is applied before the payload is marked as processed
Fresh_GateBeforeMark(inst, eventName, eventData, env) ==
    IF GateClosed(eventName, opts)
    THEN /\ results' = results
         /\ Returned(inst, eventName, eventData, TRUE, LoopStart(cache))
    ELSE /\ results' = [results EXCEPT ![inst] = @ \cup {eventData}]
         /\ Returned(inst, eventName, eventData, FALSE,
                     CheckLoop(1, eventName, eventData, env, LoopStart(cache)))

\* the part of handleEvent after the dedup test
Fresh(inst, eventName, eventData, env) ==
    /\ results' = [results EXCEPT ![inst] = @ \cup {eventData}]
    /\ IF GateClosed(eventName, opts)
       THEN Returned(inst, eventName, eventData, TRUE, LoopStart(cache))
       ELSE Returned(inst, eventName, eventData, FALSE,
                     CheckLoop(1, eventName, eventData, env, LoopStart(cache)))

\* mutant: the "already checked" test is missing
handleEvent_NoDedup(inst, eventName, eventData, env) ==
    Fresh(inst, eventName, eventData, env)

handleEvent(inst, eventName, eventData, env) ==
    IF eventData \in results[inst]
    THEN /\ last' = Did("handleEvent", inst, eventName, eventData,
                        TRUE, FALSE, LoopStart(cache))
         /\ UNCHANGED <<results, cache>>
    ELSE Fresh(inst, eventName, eventData, env)

---------------------------------------------------------------------------
(* The module as a state machine.                                          *)

NoCache == [k \in CacheKeys |-> NoContent]

Idle == Did("none", 0, "", "", FALSE, FALSE, LoopStart(NoCache))

NoProbe == [fn |-> "none"]

\* setup(sfc, userOpts): a fresh dedup store for the instance; the options
\* are written into self.opts, which is the class attribute opts, the one
\* dictionary every instance refers to
\* mutant: setup keeps the dedup store of the run before
setup_KeepResults(inst, userOpts) ==
    /\ results' = results
    /\ ready' = [ready EXCEPT ![inst] = TRUE]
    /\ opts' = MergeOpts(opts, userOpts)
    /\ last' = Did("setup", inst, "", "", FALSE, FALSE, LoopStart(NoCache))

setup(inst, userOpts) ==
    /\ results' = [results EXCEPT ![inst] = {}]
    /\ ready' = [ready EXCEPT ![inst] = TRUE]
    /\ opts' = MergeOpts(opts, userOpts)
    /\ last' = Did("setup", inst, "", "", FALSE, FALSE, LoopStart(NoCache))

Setup(inst, userOpts) ==
    /\ setup(inst, userOpts)
    /\ UNCHANGED <<malchecks, cache, probe>>

\* the host delivers an event to an instance that has been set up
HandleEvent(inst, eventName, eventData, env) ==
    /\ ready[inst]
    /\ handleEvent(inst, eventName, eventData, env)
    /\ UNCHANGED <<malchecks, opts, ready, probe>>

\* the host's content cache drops an entry that is older than the
\* freshness period
CacheExpire(key) ==
    /\ cache[key] # NoContent
    /\ cache' = [cache EXCEPT ![key] = NoContent]
    /\ UNCHANGED <<malchecks, opts, results, ready, last, probe>>

Init ==
    /\ malchecks \in Tables
    /\ opts = DefaultOpts
    /\ results = [i \in {1} |-> {}]
    /\ ready = [i \in {1} |-> FALSE]
    /\ cache = NoCache
    /\ last = Idle
    /\ probe = NoProbe

Next ==
    \/ \E inst \in Instances, userOpts \in UserOpts : Setup(inst, userOpts)
    \/ \E inst \in Instances, eventName \in EventNames :
          \E eventData \in Payloads(eventName) :
              \E env \in EnvsFor(inst, eventName, eventData) :
                  HandleEvent(inst, eventName, eventData, env)
    \/ \E key \in CacheKeys : CacheExpire(key)

Spec == Init /\ [][Next]_vars

---------------------------------------------------------------------------
(* Two instances of the module in one process, on the table the module     *)
(* ships and the events it subscribes to.                                  *)

\* watchedEvents()
WatchedEvents == {"IP_ADDRESS", "AFFILIATE_IPADDR"}

\* self.opts as an instance reads it: setup never binds an attribute opts
\* on the instance, so the name resolves to the class attribute
InstanceOpts(inst) == opts

InitIso ==
    /\ malchecks = ShippedTable
    /\ opts = DefaultOpts
    /\ results = [i \in {1, 2} |-> {}]
    /\ ready = [i \in {1, 2} |-> FALSE]
    /\ cache = NoCache
    /\ last = Idle
    /\ probe = NoProbe

NextIso ==
    \/ \E inst \in Instances, userOpts \in UserOpts : Setup(inst, userOpts)
    \/ \E inst \in Instances, eventName \in WatchedEvents :
          \E eventData \in Payloads(eventName) :
              \E env \in EnvsFor(inst, eventName, eventData) :
                  HandleEvent(inst, eventName, eventData, env)

SpecIso == InitIso /\ [][NextIso]_vars

---------------------------------------------------------------------------
(* The classifier on its own: contentMalicious applied to drawn inputs.    *)

PatPool == {RxBadHigh, RxGoodLow, RxAnyScore, RxTdStart}

PatLists == UNION {[1..n -> PatPool] : n \in 0..MaxPatterns}

PageNames == {"page95", "page10", "page100", "page60upper", "pageNoTag", ""}

InitClassify ==
    /\ malchecks = ShippedTable
    /\ opts = DefaultOpts
    /\ results = [i \in {1} |-> {}]
    /\ ready = [i \in {1} |-> FALSE]
    /\ cache = NoCache
    /\ last = Idle
    /\ probe \in [fn : {"contentMalicious"}, content : PageNames,
                  good : PatLists, bad : PatLists, out : {"pending"}]

Classify ==
    /\ probe.out = "pending"
    /\ probe' = [probe EXCEPT !.out = contentMalicious(Text(probe.content),
                                                       probe.good, probe.bad)]
    /\ UNCHANGED <<malchecks, opts, results, ready, cache, last>>

SpecClassify == InitClassify /\ [][Classify]_vars

---------------------------------------------------------------------------
(* The single-query resolver on its own: resourceQuery applied to a drawn  *)
(* check identifier, target and fetch result.                              *)

QueryTables == {<<CheckWatchguard>>, <<CheckQueryB>>,
                <<CheckWatchguard, CheckQueryB>>}

InitQuery ==
    /\ malchecks \in QueryTables
    /\ opts = MergeOpts(DefaultOpts, FullOpts)
    /\ results = [i \in {1} |-> {}]
    /\ ready = [i \in {1} |-> FALSE]
    /\ cache = NoCache
    /\ last = Idle
    /\ probe \in [fn : {"resourceQuery"}, id : {"_watchguard", "_qb"},
                  target : {"10.0.0.1", "7018", "a.evil.com"},
                  res : PageNames \cup {NoContent},
                  done : {FALSE}, found : {FALSE}, url : {<<>>}, exc : {""},
                  calls : {<<>>}]

\* the collaborators of a probe: every fetch returns res
ProbeEnv(res) ==
    [fetch |-> [j \in 1..Len(malchecks) |-> res], dom |-> NoContent,
     stopAt |-> Len(malchecks) + 1]

Probed(r) ==
    /\ probe' = [probe EXCEPT !.done = TRUE, !.found = r.found,
                              !.url = r.url, !.exc = r.exc]
    /\ cache' = r.cache

\* the outcome of a direct resolver call, with the collaborator calls made
ProbedCalls(r) ==
    /\ probe' = [probe EXCEPT !.done = TRUE, !.found = r.found,
                              !.url = r.url, !.exc = r.exc,
                              !.calls = [k \in 1..Len(r.trace) |->
                                            r.trace[k].op]]
    /\ cache' = r.cache

QueryProbe ==
    /\ ~probe.done
    /\ ProbedCalls(resourceQuery(probe.id, probe.target, "ip",
                                 ProbeEnv(probe.res), cache))
    /\ UNCHANGED <<malchecks, opts, results, ready, last>>

SpecQuery == InitQuery /\ [][QueryProbe]_vars

---------------------------------------------------------------------------
(* The bulk-list resolver on its own, scanning a drawn list for a drawn    *)
(* netblock.                                                               *)

\* longest list drawn, in lines
MaxLines == 3

LinePool == {"10.0.0.1", "10.0.0.5", "#10.0.0.2", "bad", "1.2.3.4",
             "1.2.3.4 ", "10.0.0.3\r", "10.0.0.x1"}

LineLists == UNION {[1..n -> LinePool] : n \in 0..MaxLines}

Netblocks == {"10.0.0.0/30", "10.0.0.8/30", "1.2.3.4/30"}

InitNetblock ==
    /\ malchecks = <<CheckListC>>
    /\ opts = MergeOpts(DefaultOpts, FullOpts)
    /\ results = [i \in {1} |-> {}]
    /\ ready = [i \in {1} |-> FALSE]
    /\ cache = NoCache
    /\ last = Idle
    /\ probe \in [fn : {"resourceList"}, lines : LineLists, target : Netblocks,
                  done : {FALSE}, found : {FALSE}, url : {<<>>}, exc : {""}]

NetblockProbe ==
    /\ ~probe.done
    /\ Probed(resourceList("_lc", probe.target, "netblock",
                           ProbeEnv("probe"), cache))
    /\ UNCHANGED <<malchecks, opts, results, ready, last>>

SpecNetblock == InitNetblock /\ [][NetblockProbe]_vars

---------------------------------------------------------------------------
(* The bulk-list resolver on its own, matching a drawn host name against a *)
(* drawn list.                                                             *)

DomainLinePool == {"a.evil.com", "evil.com", "evil.com ", "EVIL.COM",
                   "b.evil.com"}

DomainLists == UNION {[1..n -> DomainLinePool] : n \in 0..MaxLines}

InitDomain ==
    /\ malchecks = <<CheckListC>>
    /\ opts = MergeOpts(DefaultOpts, FullOpts)
    /\ results = [i \in {1} |-> {}]
    /\ ready = [i \in {1} |-> FALSE]
    /\ cache = NoCache
    /\ last = Idle
    /\ probe \in [fn : {"resourceList"}, lines : DomainLists,
                  target : {"a.evil.com", "evil.com"},
                  dom : {NoContent, "evil.com"},
                  done : {FALSE}, found : {FALSE}, url : {<<>>}, exc : {""},
                  calls : {<<>>}]

DomainProbe ==
    /\ ~probe.done
    /\ ProbedCalls(resourceList("_lc", probe.target, "domain",
                                [ProbeEnv("probe") EXCEPT !.dom = probe.dom],
                                cache))
    /\ UNCHANGED <<malchecks, opts, results, ready, last>>

SpecDomain == InitDomain /\ [][DomainProbe]_vars

---------------------------------------------------------------------------
(* The bulk-list resolver on a table in which two list checks share one    *)
(* identifier, each URL answering with its own list.                       *)

SharedTable == <<CheckListC, CheckListD>>

\* the targets drawn, with the indicator kind and the base domain that
\* hostDomain derives
SharedTargets ==
    {[target |-> "10.0.0.0/30", kind |-> "netblock", dom |-> NoContent],
     [target |-> "10.0.0.8/30", kind |-> "netblock", dom |-> NoContent],
     [target |-> "1.2.3.4/30", kind |-> "netblock", dom |-> NoContent],
     [target |-> "10.0.0.1", kind |-> "ip", dom |-> NoContent],
     [target |-> "10.0.0.5", kind |-> "ip", dom |-> NoContent],
     [target |-> "7018", kind |-> "asn", dom |-> NoContent],
     [target |-> "a.evil.com", kind |-> "domain", dom |-> "evil.com"],
     [target |-> "evil.com", kind |-> "domain", dom |-> "evil.com"]}

InitShared ==
    /\ malchecks = SharedTable
    /\ opts = MergeOpts(DefaultOpts, FullOpts)
    /\ results = [i \in {1} |-> {}]
    /\ ready = [i \in {1} |-> FALSE]
    /\ cache = NoCache
    /\ last = Idle
    /\ \E t \in SharedTargets,
          f \in [1..Len(SharedTable) -> FetchResults(CheckListC)] :
          probe = [fn |-> "resourceList", target |-> t.target,
                   kind |-> t.kind, dom |-> t.dom, fetch |-> f,
                   done |-> FALSE, found |-> FALSE, url |-> <<>>, exc |-> "",
                   calls |-> <<>>]

SharedProbe ==
    /\ ~probe.done
    /\ ProbedCalls(resourceList("_lc", probe.target, probe.kind,
                                [fetch |-> probe.fetch, dom |-> probe.dom,
                                 stopAt |-> Len(malchecks) + 1],
                                cache))
    /\ UNCHANGED <<malchecks, opts, results, ready, last>>

SpecShared == InitShared /\ [][SharedProbe]_vars

---------------------------------------------------------------------------
(* The bulk-list resolver called again and again on one content cache,     *)
(* whose entries the host may age out between the calls.                   *)

\* resourceList has returned r for the target t under the fetch answers f
CacheProbed(t, f, r) ==
    /\ probe' = [fn |-> "resourceList", target |-> t.target, kind |-> t.kind,
                 dom |-> t.dom, fetch |-> f, done |-> TRUE, found |-> r.found,
                 url |-> r.url, exc |-> r.exc, trace |-> r.trace,
                 before |-> cache, after |-> r.cache]
    /\ cache' = r.cache

CachedLookup(t, f) ==
    /\ CacheProbed(t, f, resourceList("_lc", t.target, t.kind,
                                      [fetch |-> f, dom |-> t.dom,
                                       stopAt |-> Len(malchecks) + 1],
                                      cache))
    /\ UNCHANGED <<malchecks, opts, results, ready, last>>

InitCache ==
    /\ malchecks \in {<<CheckListC>>, SharedTable}
    /\ opts = MergeOpts(DefaultOpts, FullOpts)
    /\ results = [i \in {1} |-> {}]
    /\ ready = [i \in {1} |-> FALSE]
    /\ cache = NoCache
    /\ last = Idle
    /\ probe = NoProbe

NextCache ==
    \/ \E t \in SharedTargets,
          f \in [1..Len(malchecks) -> FetchResults(CheckListC)] :
          CachedLookup(t, f)
    \/ \E key \in CacheKeys : CacheExpire(key)

SpecCache == InitCache /\ [][NextCache]_vars

---------------------------------------------------------------------------
(* The runs of one instance, from the return of setup on, with a record of *)
(* the payload values delivered since setup and of how each was handled    *)
(* when it first arrived.                                                  *)

\* the tables of the runs: the shipped one, and one with a list check added
RunTables == {ShippedTable, <<CheckWatchguard, CheckListC>>}

\* the option maps of the run: every option set, or the gates closed
RunOpts == {FullOpts, RestrictedOpts}

\* how a call that was not a repetition ended
Outcome(l) ==
    IF l.gated THEN "gate" ELSE IF l.stopped THEN "stop" ELSE "run"

\* the record at the start of a run: nothing delivered yet
NoRun == [fn |-> "run", how |-> [d \in AllPayloads |-> ""], seen |-> {}]

InitRun ==
    /\ malchecks \in RunTables
    /\ opts \in {MergeOpts(DefaultOpts, o) : o \in RunOpts}
    /\ results = [i \in {1} |-> {}]
    /\ ready = [i \in {1} |-> TRUE]
    /\ cache = NoCache
    /\ last = Idle
    /\ probe = NoRun

\* the host delivers an event; the record keeps the payload's first outcome
\* and the payloads delivered so far
Delivered(inst, eventName, eventData, env) ==
    /\ ready[inst]
    /\ handleEvent(inst, eventName, eventData, env)
    /\ probe' = [probe EXCEPT
                    !.how[eventData] = IF @ # "" THEN @ ELSE Outcome(last'),
                    !.seen = @ \cup {eventData}]
    /\ UNCHANGED <<malchecks, opts, ready>>

\* the host sets the instance up again for the next run
Restart(inst, userOpts) ==
    /\ setup(inst, userOpts)
    /\ probe' = NoRun
    /\ UNCHANGED <<malchecks, cache>>

NextRun ==
    \/ \E inst \in Instances, eventName \in EventNames :
          \E eventData \in Payloads(eventName) :
              \E env \in EnvsFor(inst, eventName, eventData) :
                  Delivered(inst, eventName, eventData, env)
    \/ \E inst \in Instances, userOpts \in RunOpts : Restart(inst, userOpts)

SpecRun == InitRun /\ [][NextRun]_vars

---------------------------------------------------------------------------
(* Properties.                                                             *)

\* a step in which an instance handled an event (a repeated call that only
\* rewrites the same record of the last operation is a stuttering step)
CallStep == last'.op = "handleEvent" /\ (last' # last \/ results' # results)

\* the option is set and true
Enabled(key) == key \in DOMAIN opts /\ opts[key]

\* the calls of op recorded in a trace
CallsOf(trace, op) == {k \in 1..Len(trace) : trace[k].op = op}

\* C1: a payload value is looked up at most once per run of an instance:
\* a handleEvent call whose payload is already in the instance's dedup set
\* invokes no resolver, emits no event and leaves the set unchanged; a call
\* with a new payload invokes the resolver at most once per check and emits
\* at most one finding per check.
C1_LookedUpOnce ==
    [][CallStep =>
         IF last'.eventData \in results[last'.inst]
         THEN /\ last'.lookups = <<>>
              /\ last'.trace = <<>>
              /\ last'.emits = <<>>
              /\ results' = results
         ELSE /\ \A a, b \in 1..Len(last'.lookups) :
                    a # b => last'.lookups[a].chk # last'.lookups[b].chk
              /\ \A a, b \in 1..Len(last'.emits) :
                    a # b => last'.emits[a].chk # last'.emits[b].chk
              /\ results' = [results EXCEPT ![last'.inst] =
                                @ \cup {last'.eventData}]]_vars

C1_Witness ==
    /\ last.op = "handleEvent"
    /\ last.eventData \in results[last.inst]
    /\ last.dup
    /\ Enabled(malchecks[1].id)
    /\ ~GateClosed(last.eventName, opts)

\* C2: every finding emitted by handleEvent is for a check whose enable
\* flag is set and whose lookup, in the same call and for the event's
\* payload, returned the source reference the finding carries; for a query
\* check that reference is the substituted URL and exists only if the fetch
\* returned content that a bad pattern matches.
C2_FindingJustified ==
    last.op = "handleEvent" =>
      \A n \in 1..Len(last.emits) :
        /\ Enabled(malchecks[last.emits[n].chk].id)
        /\ last.emits[n].data = last.eventData
        /\ \E m \in 1..Len(last.lookups) :
              /\ last.lookups[m].chk = last.emits[n].chk
              /\ last.lookups[m].found
              /\ last.lookups[m].url = last.emits[n].url
        /\ \E j \in 1..Len(malchecks) :
              /\ malchecks[j].id = malchecks[last.emits[n].chk].id
              /\ IF malchecks[j].type = "query"
                 THEN /\ last.emits[n].url = <<malchecks[j].url[1], last.eventData>>
                      /\ \E k \in CallsOf(last.trace, "fetchUrl") :
                            /\ last.trace[k].chk = j
                            /\ last.trace[k].val # NoContent
                            /\ \E b \in 1..Len(malchecks[j].badregex) :
                                  ReMatch(malchecks[j].badregex[b],
                                          Text(last.trace[k].val))
                 ELSE last.emits[n].url = malchecks[j].url

C2_Witness ==
    /\ last.op = "handleEvent"
    /\ last.emits # <<>>
    /\ malchecks[last.emits[1].chk].type = "query"

\* C3: the classifier follows the three-way rule: "True" (malicious) when
\* any bad pattern matches, whether or not a good pattern matches too;
\* otherwise "False" (not malicious) when any good pattern matches;
\* otherwise, also for two empty lists, "None" (unknown).
ClassifyRule(content, good, bad) ==
    IF \E i \in 1..Len(bad) : ReMatch(bad[i], content) THEN "True"
    ELSE IF \E i \in 1..Len(good) : ReMatch(good[i], content) THEN "False"
    ELSE "None"

C3_ThreeWayRule ==
    (probe.fn = "contentMalicious" /\ probe.out # "pending") =>
        probe.out = ClassifyRule(Text(probe.content), probe.good, probe.bad)

C3_Witness ==
    /\ probe.fn = "contentMalicious"
    /\ probe.out = "True"
    /\ \E i \in 1..Len(probe.good) : ReMatch(probe.good[i], Text(probe.content))

\* C4: an event of a gated kind whose gate option is not enabled invokes no
\* resolver and emits no event (AFFILIATE_IPADDR / checkaffiliates,
\* CO_HOSTED_SITE / checkcohosts, NETBLOCK_OWNER / checknetblocks,
\* NETBLOCK_MEMBER / checksubnets).
GateOption(eventName) ==
    CASE eventName = "AFFILIATE_IPADDR" -> "checkaffiliates"
      [] eventName = "CO_HOSTED_SITE" -> "checkcohosts"
      [] eventName = "NETBLOCK_OWNER" -> "checknetblocks"
      [] eventName = "NETBLOCK_MEMBER" -> "checksubnets"
      [] OTHER -> ""

C4_GateClosed ==
    (/\ last.op = "handleEvent"
     /\ GateOption(last.eventName) # ""
     /\ ~Enabled(GateOption(last.eventName))) =>
        /\ last.lookups = <<>>
        /\ last.trace = <<>>
        /\ last.emits = <<>>
        /\ last.exc = ""

C4_Witness ==
    /\ last.op = "handleEvent"
    /\ last.eventName = "AFFILIATE_IPADDR"
    /\ "checkaffiliates" \in DOMAIN opts /\ ~opts["checkaffiliates"]
    /\ ~last.dup
    /\ Enabled(malchecks[1].id)

\* C5: when the stop signal is active at the poll that follows a check's
\* lookup, handleEvent returns without error, emits no finding for that
\* check even if its lookup returned a source reference, and neither looks
\* up nor emits for any later check.
C5_CooperativeStop ==
    (last.op = "handleEvent" /\ last.stopped) =>
        /\ last.exc = ""
        /\ last.lookups # <<>>
        /\ Len(last.lookups) = last.polls
        /\ \A n \in 1..Len(last.emits) :
              last.emits[n].chk < last.lookups[Len(last.lookups)].chk
        /\ \A m \in 1..Len(last.lookups) :
              last.lookups[m].chk <= last.lookups[Len(last.lookups)].chk

C5_Witness ==
    /\ last.op = "handleEvent"
    /\ last.stopped
    /\ last.lookups[Len(last.lookups)].found
    /\ last.lookups[Len(last.lookups)].chk < Len(malchecks)
    /\ Enabled(malchecks[Len(malchecks)].id)

\* C6: resourceQuery returns the URL made by substituting the target into
\* the check's URL template if and only if the fetch returned content and
\* the content classifies as malicious; otherwise it returns no finding.
C6_QueryIff ==
    (probe.fn = "resourceQuery" /\ probe.done) =>
        /\ probe.exc = ""
        /\ probe.found <=>
              \E j \in 1..Len(malchecks) :
                 /\ malchecks[j].id = probe.id
                 /\ probe.res # NoContent
                 /\ ClassifyRule(Text(probe.res), malchecks[j].goodregex,
                                 malchecks[j].badregex) = "True"
        /\ probe.found =>
              \E j \in 1..Len(malchecks) :
                 /\ malchecks[j].id = probe.id
                 /\ probe.url = <<malchecks[j].url[1], probe.target>>
        /\ ~probe.found => probe.url = <<>>

C6_Witness ==
    /\ probe.fn = "resourceQuery" /\ probe.done
    /\ probe.id = "_watchguard" /\ probe.res = "page95"
    /\ probe.target = "10.0.0.1"
    /\ probe.url = <<"http://reputationauthority.org/lookup?ip=", "10.0.0.1">>

\* the next check after check i whose enable flag is set, 0 if none
NextEnabled(i) ==
    IF \E n \in (i + 1)..Len(malchecks) : Enabled(malchecks[n].id)
    THEN CHOOSE n \in (i + 1)..Len(malchecks) :
            /\ Enabled(malchecks[n].id)
            /\ \A x \in (i + 1)..(n - 1) : ~Enabled(malchecks[x].id)
    ELSE 0

\* C7: a check whose fetch returned no content yields no finding and no
\* event and does not end the call: unless the stop signal is active at the
\* poll right after it, the next enabled check is looked up (and so, in
\* turn, every remaining one), and can emit its own finding.
C7_FailOpen ==
    last.op = "handleEvent" =>
      \A m \in 1..Len(last.lookups) :
        last.lookups[m].failed =>
          /\ ~last.lookups[m].found
          /\ last.lookups[m].exc = ""
          /\ \A n \in 1..Len(last.emits) :
                last.emits[n].chk # last.lookups[m].chk
          /\ \/ last.stopped /\ m = Len(last.lookups)
             \/ NextEnabled(last.lookups[m].chk) = 0
             \/ /\ m < Len(last.lookups)
                /\ last.lookups[m + 1].chk = NextEnabled(last.lookups[m].chk)

C7_Witness ==
    /\ last.op = "handleEvent"
    /\ \E m \in 1..Len(last.lookups) :
          /\ last.lookups[m].failed
          /\ \E n \in 1..Len(last.emits) :
                last.emits[n].chk > last.lookups[m].chk

\* C8: handleEvent never ends in an exception, whatever option map the host
\* supplied and whatever the collaborators answered.
C8_NeverRaises == last.op = "handleEvent" => last.exc = ""

\* C9: an operation on one instance never changes the dedup set or the
\* option map that another instance, already set up, observes.
C9_Isolation ==
    [][\A other \in Instances :
          (other # last'.inst /\ ready[other]) =>
              /\ results'[other] = results[other]
              /\ InstanceOpts(other)' = InstanceOpts(other)]_vars

\* the address a list line parses as: its four octets, <<>> where the
\* line is not an address
LineAddress(line) ==
    CASE line = "10.0.0.1" -> <<10, 0, 0, 1>>
      [] line = "10.0.0.5" -> <<10, 0, 0, 5>>
      [] line = "1.2.3.4" -> <<1, 2, 3, 4>>
      [] line = "1.2.3.4 " -> <<1, 2, 3, 4>>
      [] line = "10.0.0.3\r" -> <<10, 0, 0, 3>>
      [] OTHER -> <<>>

\* the addresses of a netblock: its first three octets and the range of
\* the fourth
BlockRange(block) ==
    CASE block = "10.0.0.0/30" -> [net |-> <<10, 0, 0>>, lo |-> 0, hi |-> 3]
      [] block = "10.0.0.8/30" -> [net |-> <<10, 0, 0>>, lo |-> 8, hi |-> 11]
      [] block = "1.2.3.4/30" -> [net |-> <<1, 2, 3>>, lo |-> 4, hi |-> 7]

\* the line counts for the scan: at least 8 characters, no leading '#', an
\* address, inside the block
LineCounts(line, block) ==
    /\ Len(Text(line)) >= 8
    /\ Head(Text(line)) # "#"
    /\ LineAddress(line) # <<>>
    /\ SubSeq(LineAddress(line), 1, 3) = BlockRange(block).net
    /\ LineAddress(line)[4] >= BlockRange(block).lo
    /\ LineAddress(line)[4] <= BlockRange(block).hi

\* C10: for a netblock target and a list check without a line template,
\* resourceList returns the check's static URL if and only if some list
\* line of at least 8 characters that does not start with '#' and parses
\* as an address lies inside the netblock; lines that do not parse are
\* skipped, and an exhausted list yields no finding.
C10_NetblockScan ==
    (probe.fn = "resourceList" /\ probe.done) =>
        /\ probe.exc = ""
        /\ probe.found <=>
              \E k \in 1..Len(probe.lines) :
                 LineCounts(probe.lines[k], probe.target)
        /\ probe.found => probe.url = <<"http://c/list.txt">>
        /\ ~probe.found => probe.url = <<>>

C10_Witness ==
    /\ probe.fn = "resourceList" /\ probe.done /\ probe.found
    /\ Len(probe.lines) = 3
    /\ probe.lines[1] = "10.0.0.x1"
    /\ probe.lines[2] = "#10.0.0.2"
    /\ probe.lines[3] = "10.0.0.3\r"

\* C11: for a domain target and a list check without a line template,
\* resourceList returns the check's URL if and only if the base domain was
\* derived and some list line equals the target or the base domain exactly;
\* when the derivation fails it returns no finding and neither reads the
\* cache nor fetches the list.
C11_DomainMatch ==
    (probe.fn = "resourceList" /\ probe.done /\ "dom" \in DOMAIN probe) =>
        /\ probe.exc = ""
        /\ probe.found <=>
              /\ probe.dom # NoContent
              /\ \E k \in 1..Len(probe.lines) :
                    probe.lines[k] \in {probe.target, probe.dom}
        /\ probe.found => probe.url = <<"http://c/list.txt">>
        /\ ~probe.found => probe.url = <<>>
        /\ probe.dom = NoContent =>
              /\ \A k \in 1..Len(probe.calls) :
                    probe.calls[k] \notin {"cacheGet", "fetchUrl", "cachePut"}
              /\ cache = NoCache

C11_Witness ==
    /\ probe.fn = "resourceList" /\ probe.done /\ "dom" \in DOMAIN probe
    /\ probe.found
    /\ probe.target = "a.evil.com" /\ probe.dom = "evil.com"
    /\ Len(probe.lines) = 2
    /\ probe.lines[1] = "EVIL.COM"
    /\ probe.lines[2] = "evil.com"

\* the list that the URL of check j answers with holds the target
OwnListHolds(j) ==
    /\ probe.fetch[j] # NoContent
    /\ IF probe.kind = "netblock"
       THEN ScanNetblock(Split(Text(probe.fetch[j]), "\n"), 1, probe.target)
       ELSE LineMatch(Split(Text(probe.fetch[j]), "\n"), Text(probe.target),
                      probe.kind, Text(probe.dom))

\* C12: when several list checks share the requested identifier, resourceList
\* returns the finding of the first check, in table order, whose list holds
\* the target, and returns no finding only when no such check's list holds
\* it: neither a list without a match nor a failed fetch on an earlier check
\* keeps a later check from producing the finding, for every target kind.
C12_FirstPositive ==
    (probe.fn = "resourceList" /\ probe.done /\ "fetch" \in DOMAIN probe) =>
        /\ probe.found <=> \E j \in 1..Len(malchecks) : OwnListHolds(j)
        /\ probe.found =>
              \E j \in 1..Len(malchecks) :
                  /\ OwnListHolds(j)
                  /\ \A i \in 1..(j - 1) : ~OwnListHolds(i)
                  /\ probe.url = malchecks[j].url

\* C13: resourceQuery never calls the classifier on absent or empty
\* content: when the fetch returned None or the empty string it returns no
\* finding without a call of contentMalicious.
C13_NoClassifyOnEmpty ==
    (/\ probe.fn = "resourceQuery" /\ probe.done
     /\ (probe.res = NoContent \/ Text(probe.res) = <<>>)) =>
        /\ ~probe.found
        /\ \A k \in 1..Len(probe.calls) : probe.calls[k] # "contentMalicious"

\* the cache after content was stored under the key of the list checks
Stored(cch, content) == [cch EXCEPT ![<<"sfmal_", "_lc">>] = content]

\* C14: the cache protocol of resourceList.  For every list check evaluated
\* the cache is read first, under "sfmal_" + id; the list is fetched if and
\* only if that read returned nothing; cachePut is called if and only if the
\* fetch returned content, and stores that content under the same key; a
\* failed fetch leaves the cache as it was and yields no finding.  So a call
\* that finds an entry in the cache fetches nothing.
C14_CacheProtocol ==
    (probe.fn = "resourceList" /\ "before" \in DOMAIN probe) =>
      LET tr == probe.trace
          key == <<"sfmal_", "_lc">>
          gets == CallsOf(tr, "cacheGet")
          fetches == CallsOf(tr, "fetchUrl")
          puts == CallsOf(tr, "cachePut")
      IN  /\ probe.exc = ""
          /\ \A k \in gets :
                /\ tr[k].val = IF \E p \in puts : p < k
                               THEN tr[CHOOSE p \in puts : p < k].val
                               ELSE probe.before[key]
                /\ tr[k].val = NoContent <=>
                      /\ k < Len(tr)
                      /\ tr[k + 1].op = "fetchUrl"
                      /\ tr[k + 1].chk = tr[k].chk
          /\ \A k \in fetches :
                /\ k - 1 \in gets
                /\ tr[k].val # NoContent <=>
                      /\ k < Len(tr)
                      /\ tr[k + 1].op = "cachePut"
                      /\ tr[k + 1].chk = tr[k].chk
                      /\ tr[k + 1].val = tr[k].val
                /\ tr[k].val = NoContent =>
                      /\ k + 1 = Len(tr)
                      /\ tr[k + 1].op = "error"
                      /\ ~probe.found
                      /\ probe.after = probe.before
          /\ \A k \in puts :
                /\ k - 1 \in fetches
                /\ probe.after = Stored(probe.before, tr[k].val)
          /\ puts = {} => probe.after = probe.before
          /\ probe.before[key] # NoContent => fetches = {}
          /\ \A j \in 1..Len(malchecks) :
                Cardinality({k \in gets : tr[k].chk = j}) <= 1
          /\ \E k \in gets : \A n \in 1..(k - 1) : tr[n].op = "hostDomain"

C14_Witness ==
    /\ probe.fn = "resourceList" /\ "before" \in DOMAIN probe
    /\ probe.before[<<"sfmal_", "_lc">>] = "listY"
    /\ probe.fetch[1] = "listX"
    /\ probe.target = "10.0.0.1" /\ probe.found
    /\ CallsOf(probe.trace, "cacheGet") # {}
    /\ CallsOf(probe.trace, "fetchUrl") = {}

\* the dispatch table: inbound event kind, indicator kind, outbound kind
DispatchTable ==
    {<<"IP_ADDRESS", "ip", "MALICIOUS_IPADDR">>,
     <<"AFFILIATE_IPADDR", "ip", "MALICIOUS_AFFILIATE_IPADDR">>,
     <<"BGP_AS_OWNER", "asn", "MALICIOUS_ASN">>,
     <<"BGP_AS_MEMBER", "asn", "MALICIOUS_ASN">>,
     <<"INTERNET_NAME", "domain", "MALICIOUS_INTERNET_NAME">>,
     <<"AFFILIATE_INTERNET_NAME", "domain", "MALICIOUS_AFFILIATE_INTERNET_NAME">>,
     <<"CO_HOSTED_SITE", "domain", "MALICIOUS_COHOST">>,
     <<"NETBLOCK_OWNER", "netblock", "MALICIOUS_NETBLOCK">>,
     <<"NETBLOCK_MEMBER", "netblock", "MALICIOUS_SUBNET">>}

\* C15: whatever was handled before, every lookup made while handling an
\* event is made with the indicator kind the dispatch table gives the
\* event's kind, and every finding emitted has the outbound kind the table
\* gives it.
C15_Dispatch ==
    last.op = "handleEvent" =>
        \E row \in DispatchTable :
            /\ row[1] = last.eventName
            /\ \A m \in 1..Len(last.lookups) : last.lookups[m].typeId = row[2]
            /\ \A n \in 1..Len(last.emits) : last.emits[n].evtType = row[3]

C15_Witness ==
    /\ last.op = "handleEvent"
    /\ last.eventName = "NETBLOCK_MEMBER"
    /\ last.emits # <<>>
    /\ last.emits[1].evtType = "MALICIOUS_SUBNET"
    /\ "7018" \in results[last.inst]

\* C16: a call that a closed gate drops, or that the stop signal ends, has
\* marked its payload as processed; and an event of any kind whose payload
\* was first handled by such a call makes no lookup and emits no finding.
C16_MarkedBeforeGate ==
    [][CallStep =>
         /\ (last'.gated \/ last'.stopped) =>
                last'.eventData \in results'[last'.inst]
         /\ probe.how[last'.eventData] \in {"gate", "stop"} =>
                /\ last'.lookups = <<>>
                /\ last'.trace = <<>>
                /\ last'.emits = <<>>
                /\ last'.exc = ""]_vars

C16_Witness ==
    /\ probe.fn = "run"
    /\ probe.how["10.0.0.1"] = "gate"
    /\ last.op = "handleEvent" /\ last.eventName = "IP_ADDRESS"
    /\ last.eventData = "10.0.0.1" /\ last.dup
    /\ \E i \in Switched : "ip" \in malchecks[i].checks

\* C17: setup starts a run with an empty dedup set; a handleEvent call
\* leaves the set as it is when the payload is in it and otherwise adds the
\* payload and nothing else; nothing but setup removes a value; so the set
\* holds exactly the payloads delivered since setup.
C17_DedupSet ==
    /\ [](probe.fn = "run" => results[1] = probe.seen)
    /\ [][/\ last'.op = "setup" => results'[last'.inst] = {}
          /\ last'.op = "handleEvent" =>
                /\ results[last'.inst] \subseteq results'[last'.inst]
                /\ results'[last'.inst] =
                      results[last'.inst] \cup {last'.eventData}
                /\ last'.dup <=> last'.eventData \in results[last'.inst]
                /\ last'.dup => results' = results]_vars

C17_Witness ==
    /\ probe.fn = "run"
    /\ last.op = "handleEvent" /\ last.dup
    /\ results[1] = {"10.0.0.1", "7018"}
    /\ probe.how["a.evil.com"] = ""
    /\ cache[<<"sfmal_", "_lc">>] # NoContent

=============================================================================
